---------------------------- MODULE Spec2Model ----------------------------
(***************************************************************************)
(* TLV generation of the mcuboot simulator (sim/src/tlv.rs).               *)
(*                                                                         *)
(* One TlvGen instance is followed through its life: a constructor         *)
(* (new_hash_only, new_rsa_pss), the getters, add_bytes, and make_tlv,     *)
(* which takes the instance by value.  The digest, the PEM parser, the key *)
(* loader, the random source and the signer are libraries outside the      *)
(* repository (ring, pem, untrusted): what they return is an input of      *)
(* make_tlv, drawn from the sets below; what make_tlv does with each       *)
(* answer is taken from its code.  A panic (a failed assert or unwrap) is  *)
(* an outcome of make_tlv in which the caller gets no value.               *)
(***************************************************************************)
EXTENDS Integers, Sequences, FiniteSets

(***************************************************************************)
(* Bounds of the model.                                                    *)
(***************************************************************************)
\* add_bytes calls followed on one instance
MaxChunks == 2
\* longest slice handed to one add_bytes call
MaxChunkLen == 2
\* the byte values the slices are built from (the two ends of u8)
SampleBytes == {0, 255}

(***************************************************************************)
(* Constants of the program.                                               *)
(***************************************************************************)
FLAG_SHA256 == 2
FLAG_PKCS1_PSS_RSA2048_SHA256 == 64
SHA256 == 1
RSA2048 == 2
ECDSA224 == 3
ECDSA256 == 4
\* the digest length make_tlv asserts and writes into the hash record
HASH_LEN == 32
\* the signature length make_tlv asserts
SIG_LEN == 256
U8 == 256

VARIABLES
    gen,       \* the TlvGen instance: not yet built, live, or moved into make_tlv
    out,       \* what the call of make_tlv gave its caller
    ctor,      \* which constructor built the instance
    declared,  \* get_size() and get_flags() as read right after construction
    chunks,    \* the slices passed to add_bytes so far, in call order
    lastGet    \* the latest getter call: which, its value, and after how many add_bytes

vars == <<gen, out, ctor, declared, chunks, lastGet>>

(***************************************************************************)
(* Helpers.                                                                *)
(***************************************************************************)
\* all byte sequences of length at most n over SampleBytes
SeqsUpTo(n) == UNION {[1..k -> SampleBytes] : k \in 0..n}

\* the slices add_bytes is called with
Chunks == SeqsUpTo(MaxChunkLen)

\* a test for a non-empty list instead of membership
NonEmpty(v, x) == v # <<>>

\* Vec::contains
Contains(v, x) == \E i \in DOMAIN v : v[i] = x

\* bitwise or of two non-negative integers (Flags: a | b)
RECURSIVE BitOr(_, _)
BitOr(a, b) ==
    IF a = 0 THEN b
    ELSE IF b = 0 THEN a
    ELSE (IF a % 2 = 1 \/ b % 2 = 1 THEN 1 ELSE 0) + 2 * BitOr(a \div 2, b \div 2)

\* the concatenation of a sequence of slices, first to last
RECURSIVE Concat(_)
Concat(cs) == IF cs = <<>> THEN <<>> ELSE Head(cs) \o Concat(Tail(cs))

\* vec![0; n]
Zeros(n) == [i \in 1..n |-> 0]

(***************************************************************************)
(* The instance.                                                           *)
(***************************************************************************)
\* no instance yet (before a constructor ran)
NoGen == [st |-> "none", flags |-> 0, kinds |-> <<>>, size |-> 0, payload |-> <<>>]

\* the instance after make_tlv(self) took it: the caller's binding is gone
Moved == [st |-> "moved", flags |-> 0, kinds |-> <<>>, size |-> 0, payload |-> <<>>]

new_hash_only ==
    [st |-> "live",
     flags |-> FLAG_SHA256,
     kinds |-> <<SHA256>>,
     size |-> 4 + 32,
     payload |-> <<>>]

\* new_rsa_pss counting one record header instead of two
new_rsa_pss_one_header ==
    [st |-> "live",
     flags |-> BitOr(FLAG_SHA256, FLAG_PKCS1_PSS_RSA2048_SHA256),
     kinds |-> <<SHA256, RSA2048>>,
     size |-> 4 + 32 + 256,
     payload |-> <<>>]

new_rsa_pss ==
    [st |-> "live",
     flags |-> BitOr(FLAG_SHA256, FLAG_PKCS1_PSS_RSA2048_SHA256),
     kinds |-> <<SHA256, RSA2048>>,
     size |-> 4 + 32 + 4 + 256,
     payload |-> <<>>]

get_flags(self) == self.flags

get_size(self) == self.size

\* the slice put in front of the vector
insert_slice_at_front(v, bytes) == bytes \o v

\* Vec::extend_from_slice
extend_from_slice(v, bytes) == v \o bytes

\* add_bytes replacing the buffer by the slice
add_bytes_overwriting(self, bytes) == [self EXCEPT !.payload = bytes]

add_bytes(self, bytes) ==
    [self EXCEPT !.payload = extend_from_slice(self.payload, bytes)]


(***************************************************************************)
(* The libraries make_tlv calls.  Their results are inputs: the lengths    *)
(* and the failures are drawn from the sets below, the bytes are a fixed   *)
(* function of the data (and, for the randomized PSS signature, of the     *)
(* random source's seed).                                                  *)
(***************************************************************************)
\* what ring's SHA256 digest returns: always 32 bytes
DigestLens == {HASH_LEN}

\* a digest implementation that breaks its length promise
FaultyDigestLens == {HASH_LEN - 1, HASH_LEN, HASH_LEN + 1}

\* public_modulus_len() of the key in root-rsa-2048.pem: 1024, 2048 or 3072 bits
ModulusLens == {128, 256, 384}

\* the tag of the PEM block
PemTags == {"RSA PRIVATE KEY", "PRIVATE KEY"}

\* what the system random source gives the PSS padding
Seeds == {0, 1}

\* the key-handling calls of make_tlv run in this order, each only if the ones
\* before it succeeded: the result of a call that is not made is not drawn
\* (it stays at its first value)
CallsInOrder(e) ==
    LET parsed == e.pemOk
        tagged == parsed /\ e.tag = "RSA PRIVATE KEY"
        loaded == tagged /\ e.derOk
        ready == loaded /\ e.signerOk
        sized == ready /\ e.modLen = SIG_LEN
        signed == sized /\ e.signOk
    IN  /\ ~parsed => e.tag = "RSA PRIVATE KEY"
        /\ ~tagged => e.derOk
        /\ ~loaded => e.signerOk
        /\ ~ready => e.modLen = SIG_LEN
        /\ ~sized => e.signOk
        /\ ~signed => e.seed = 0

Env(digestLens) ==
    {e \in [digestLen : digestLens, pemOk : BOOLEAN, tag : PemTags, derOk : BOOLEAN,
            signerOk : BOOLEAN, modLen : ModulusLens, signOk : BOOLEAN, seed : Seeds] :
        CallsInOrder(e)}

\* a running value over the data, sensitive to the bytes and to their order
RECURSIVE Mix(_, _)
Mix(data, h) ==
    IF data = <<>> THEN h ELSE Mix(Tail(data), (h * 31 + Head(data) + 1) % 65521)

\* digest::digest(&digest::SHA256, data), of the length the library returns
digest(data, n) ==
    LET h == Mix(data, 7)
    IN  [i \in 1..n |-> IF i % 2 = 1 THEN (h + i) % U8 ELSE ((h \div U8) + i) % U8]

\* signer.sign(&RSA_PSS_SHA256, &rng, data, &mut signature): fills the buffer
sign(data, seed, signature) ==
    LET h == Mix(data, 11 + seed)
    IN  [i \in 1..Len(signature) |-> (h + i) % U8]

(***************************************************************************)
(* make_tlv.                                                               *)
(***************************************************************************)
\* what a call has done so far: the kinds list it read, the lengths it
\* computed, the key loads and the signing calls it made
NoTrace == [kinds |-> <<>>, digestLen |-> {}, sigLen |-> {}, keyLoads |-> 0, signs |-> 0]

\* before make_tlv was called
Pending ==
    [state |-> "pending", bytes |-> <<>>, panicAt |-> "none", built |-> 0,
     trace |-> NoTrace]

\* make_tlv returned `result`
Returned(result, t) ==
    [state |-> "returned", bytes |-> result, panicAt |-> "none",
     built |-> Len(result), trace |-> t]

\* a failure swallowed: the call returns what it has built so far
ReturnedPartial(at, result, t) == Returned(result, t)

\* a failed assert or unwrap at `at`: the stack unwinds, the local `result`
\* (built so far) is dropped, the caller gets no value
Panicked(at, result, t) ==
    [state |-> "panicked", bytes |-> <<>>, panicAt |-> at,
     built |-> Len(result), trace |-> t]

\* the hash length assert left out
HashLenUnchecked(hash) == TRUE

\* assert!(hash.len() == 32)
HashLenOk(hash) == Len(hash) = HASH_LEN

\* assert_eq!(signature.len(), 256)
SigLenOk(signature) == Len(signature) = SIG_LEN

\* the four pushes and the extend of the hash record
hash_record(hash) == <<SHA256, 0, 32, 0>> \o hash

\* the length written high byte first
length_be(n) == <<(n \div U8) % U8, n % U8>>

\* (len & 0xFF) as u8, ((len >> 8) & 0xFF) as u8
length_le(n) == <<n % U8, (n \div U8) % U8>>

\* the four pushes and the extend of the signature record
sig_record(signature) ==
    <<RSA2048, 0>> \o length_le(Len(signature)) \o signature

\* a record put in front of what result already holds
prepend_record(result, record) == record \o result

\* result.push(..) / result.extend_from_slice(..): a record goes to the back
append_record(result, record) == result \o record

make_tlv(self, e) ==
    LET hashCfg == Contains(self.kinds, SHA256)
        rsaCfg == Contains(self.kinds, RSA2048)
        hash == digest(self.payload, e.digestLen)
        t0 == [NoTrace EXCEPT !.kinds = self.kinds]
        t1 == IF hashCfg THEN [t0 EXCEPT !.digestLen = {Len(hash)}] ELSE t0
        r1 == IF hashCfg THEN append_record(<<>>, hash_record(hash)) ELSE <<>>
        t2 == [t1 EXCEPT !.keyLoads = 1]
        buffer == Zeros(e.modLen)
        t3 == [t2 EXCEPT !.sigLen = {Len(buffer)}]
        t4 == [t3 EXCEPT !.signs = 1]
        signature == sign(self.payload, e.seed, buffer)
    IN  IF hashCfg /\ ~HashLenOk(hash) THEN Panicked("assert_hash_len", <<>>, t1)
        ELSE IF ~rsaCfg THEN Returned(r1, t1)
        ELSE IF ~e.pemOk THEN Panicked("pem_parse", r1, t2)
        ELSE IF e.tag # "RSA PRIVATE KEY" THEN Panicked("assert_pem_tag", r1, t2)
        ELSE IF ~e.derOk THEN Panicked("from_der", r1, t2)
        ELSE IF ~e.signerOk THEN Panicked("signing_state", r1, t2)
        ELSE IF ~SigLenOk(buffer) THEN Panicked("assert_sig_len", r1, t3)
        ELSE IF ~e.signOk THEN Panicked("sign", r1, t4)
        ELSE Returned(append_record(r1, sig_record(signature)), t4)

\* make_tlv(&self): the instance stays with the caller
Borrowed(self) == self

\* make_tlv(self): the instance is moved into the call
Consumed(self) == Moved

(***************************************************************************)
(* The state machine.                                                      *)
(***************************************************************************)
NoGet == [fn |-> "none", val |-> 0, n |-> 0]

Init ==
    /\ gen = NoGen
    /\ out = Pending
    /\ ctor = "none"
    /\ declared = [size |-> 0, flags |-> 0]
    /\ chunks = <<>>
    /\ lastGet = NoGet

NewHashOnly ==
    /\ gen.st = "none"
    /\ gen' = new_hash_only
    /\ ctor' = "new_hash_only"
    /\ declared' = [size |-> get_size(gen'), flags |-> get_flags(gen')]
    /\ UNCHANGED <<out, chunks, lastGet>>

NewRsaPss ==
    /\ gen.st = "none"
    /\ gen' = new_rsa_pss
    /\ ctor' = "new_rsa_pss"
    /\ declared' = [size |-> get_size(gen'), flags |-> get_flags(gen')]
    /\ UNCHANGED <<out, chunks, lastGet>>

GetFlags ==
    /\ gen.st = "live"
    /\ lastGet' = [fn |-> "get_flags", val |-> get_flags(gen), n |-> Len(chunks)]
    /\ UNCHANGED <<gen, out, ctor, declared, chunks>>

GetSize ==
    /\ gen.st = "live"
    /\ lastGet' = [fn |-> "get_size", val |-> get_size(gen), n |-> Len(chunks)]
    /\ UNCHANGED <<gen, out, ctor, declared, chunks>>

AddBytes ==
    /\ gen.st = "live"
    /\ Len(chunks) < MaxChunks
    /\ \E bytes \in Chunks :
        /\ gen' = add_bytes(gen, bytes)
        /\ chunks' = Append(chunks, bytes)
    /\ UNCHANGED <<out, ctor, declared, lastGet>>

MakeTlv(digestLens) ==
    /\ gen.st = "live"
    /\ \E e \in Env(digestLens) : out' = make_tlv(gen, e)
    /\ gen' = Consumed(gen)
    /\ UNCHANGED <<ctor, declared, chunks, lastGet>>

Next ==
    \/ NewHashOnly
    \/ NewRsaPss
    \/ GetFlags
    \/ GetSize
    \/ AddBytes
    \/ MakeTlv(DigestLens)

Spec == Init /\ [][Next]_vars

\* the same program over a digest that may return a wrong length
NextFault ==
    \/ NewHashOnly
    \/ NewRsaPss
    \/ GetFlags
    \/ GetSize
    \/ AddBytes
    \/ MakeTlv(FaultyDigestLens)

SpecFault == Init /\ [][NextFault]_vars

\* make_tlv reads kinds only through contains().  No constructor lists the
\* kinds of new_rsa_pss the other way round; to see that make_tlv does not
\* depend on the listing, the same program is also started on such an instance
Orderings(ks) ==
    {p \in [DOMAIN ks -> {ks[i] : i \in DOMAIN ks}] :
        \A i, j \in DOMAIN ks : i # j => p[i] # p[j]}

InitKinds ==
    \/ Init
    \/ /\ \E ks \in Orderings(new_rsa_pss.kinds) : gen = [new_rsa_pss EXCEPT !.kinds = ks]
       /\ out = Pending
       /\ ctor = "new_rsa_pss"
       /\ declared = [size |-> get_size(new_rsa_pss), flags |-> get_flags(new_rsa_pss)]
       /\ chunks = <<>>
       /\ lastGet = NoGet

SpecKinds == InitKinds /\ [][Next]_vars

(***************************************************************************)
(* The verifier's reading of a TLV area: record by record from offset 0,   *)
(* each a tag, a reserved byte, a little-endian u16 length and that many   *)
(* payload bytes.  A record that does not fit is reported as BadRecord.    *)
(***************************************************************************)
BadRecord == [tag |-> -1, reserved |-> -1, len |-> -1, payload |-> <<>>]

RECURSIVE ParseTlv(_)
ParseTlv(b) ==
    IF b = <<>> THEN <<>>
    ELSE IF Len(b) < 4 THEN <<BadRecord>>
    ELSE LET n == b[3] + 256 * b[4]
         IN  IF Len(b) < 4 + n THEN <<BadRecord>>
             ELSE <<[tag |-> b[1], reserved |-> b[2], len |-> n,
                     payload |-> SubSeq(b, 5, 4 + n)]>>
                  \o ParseTlv(SubSeq(b, 5 + n, Len(b)))

Tags(recs) == [i \in DOMAIN recs |-> recs[i].tag]

WellFormedRecord(r) ==
    /\ r.tag \in {1, 2}
    /\ r.reserved = 0
    /\ r.len = (IF r.tag = 1 THEN 32 ELSE 256)
    /\ Len(r.payload) = r.len

WellFormed(recs) == \A i \in DOMAIN recs : WellFormedRecord(recs[i])

\* the record tags each constructor's scheme stands for
SchemeTags == IF ctor = "new_hash_only" THEN <<1>> ELSE <<1, 2>>

\* a library environment in which nothing fails
GoodEnv ==
    [digestLen |-> 32, pemOk |-> TRUE, tag |-> "RSA PRIVATE KEY", derOk |-> TRUE,
     signerOk |-> TRUE, modLen |-> 256, signOk |-> TRUE, seed |-> 0]

\* an instance fed the slices cs in order
RECURSIVE Feed(_, _)
Feed(self, cs) == IF cs = <<>> THEN self ELSE Feed(add_bytes(self, Head(cs)), Tail(cs))

\* the hash record of an output: its first record
HashRecordOf(bytes) == SubSeq(bytes, 1, 36)

(***************************************************************************)
(* Claims.                                                                 *)
(***************************************************************************)

\* C1: whenever make_tlv returns, the length of the returned bytes equals the
\* value get_size() gave on that instance at construction: 36 for an instance
\* of new_hash_only, 296 for one of new_rsa_pss, whatever was added.
C1_SizeMatchesOutput ==
    out.state = "returned" =>
        /\ Len(out.bytes) = declared.size
        /\ declared.size = (IF ctor = "new_hash_only" THEN 36 ELSE 296)

C1_Witness ==
    /\ out.state = "returned"
    /\ ctor = "new_rsa_pss"
    /\ Len(chunks) = MaxChunks
    /\ Concat(chunks) # <<>>
    /\ Len(out.bytes) = 296

\* C2: in every output of make_tlv the hash record comes before the signature
\* record, and the tags are those of the constructor's scheme (1, or 1 then 2),
\* in whatever order the instance's kinds are listed.
C2_HashBeforeSignature ==
    out.state = "returned" =>
        LET tags == Tags(ParseTlv(out.bytes))
        IN  /\ tags = SchemeTags
            /\ \A i, j \in DOMAIN tags : (tags[i] = 1 /\ tags[j] = 2) => i < j

C2_Witness ==
    /\ out.state = "returned"
    /\ out.trace.kinds = <<RSA2048, SHA256>>
    /\ Tags(ParseTlv(out.bytes)) = <<1, 2>>
    /\ chunks # <<>>

\* C3: the output of make_tlv parses from offset 0 into back-to-back records,
\* each a tag (1 or 2), a zero reserved byte, a little-endian length (32 for
\* the hash, 256 for the signature) and exactly that many payload bytes, with
\* nothing left over.
C3_WellFormedRecords ==
    out.state = "returned" =>
        /\ ParseTlv(out.bytes) # <<>>
        /\ WellFormed(ParseTlv(out.bytes))

C3_Witness ==
    /\ out.state = "returned"
    /\ Len(ParseTlv(out.bytes)) = 2
    /\ ParseTlv(out.bytes)[2].len = 256
    /\ Len(ParseTlv(out.bytes)[2].payload) = 256

\* C5: make_tlv returns the full TLV of the scheme or gives its caller no
\* bytes at all: a failure after the hash record was pushed hands out nothing,
\* and the key is loaded and the signer called at most once.
C5_AllOrNothing ==
    /\ out.state = "panicked" => out.bytes = <<>>
    /\ out.state = "returned" =>
        /\ Tags(ParseTlv(out.bytes)) = SchemeTags
        /\ WellFormed(ParseTlv(out.bytes))
    /\ out.trace.keyLoads <= 1
    /\ out.trace.signs <= 1

C5_Witness ==
    /\ out.state = "panicked"
    /\ out.panicAt = "sign"
    /\ out.built = 36
    /\ out.bytes = <<>>

\* C6: on an instance of new_hash_only make_tlv loads no key, signs nothing
\* and always returns one well-formed hash record, also when nothing was
\* added; a key or signing failure happens only on an instance of new_rsa_pss.
C6_HashOnlyNeverFails ==
    /\ (ctor = "new_hash_only" /\ out.state # "pending") =>
        /\ out.state = "returned"
        /\ out.trace.keyLoads = 0
        /\ out.trace.signs = 0
        /\ Tags(ParseTlv(out.bytes)) = <<1>>
        /\ WellFormed(ParseTlv(out.bytes))
    /\ (out.trace.keyLoads > 0 \/ out.trace.signs > 0 \/ out.state = "panicked")
        => ctor = "new_rsa_pss"

C6_Witness ==
    /\ ctor = "new_hash_only"
    /\ chunks = <<>>
    /\ out.state = "returned"
    /\ Len(out.bytes) = 36

\* C7 as amended: the buffer is the concatenation of the added slices in call
\* order and the hash record is the digest of exactly that; an instance fed
\* another split of the same bytes emits the same hash record; swapping two
\* different slices of equal length changes the covered content.
C7_HashCoversConcatenation ==
    /\ gen.st = "live" => gen.payload = Concat(chunks)
    /\ out.state = "returned" =>
        /\ HashRecordOf(out.bytes) = <<1, 0, 32, 0>> \o digest(Concat(chunks), 32)
        /\ \A c1, c2 \in Chunks :
            c1 \o c2 = Concat(chunks) =>
                HashRecordOf(make_tlv(Feed(new_hash_only, <<c1, c2>>), GoodEnv).bytes)
                    = HashRecordOf(out.bytes)
    /\ (/\ gen.st = "live"
        /\ Len(chunks) = 2
        /\ chunks[1] # chunks[2]
        /\ Len(chunks[1]) = Len(chunks[2]))
        => Feed(new_hash_only, <<chunks[2], chunks[1]>>).payload # gen.payload
    /\ (gen.st = "live" /\ Len(chunks) = 2)
        => Feed(new_hash_only, <<chunks[2], chunks[1]>>).payload = chunks[2] \o chunks[1]

C7_Witness ==
    /\ out.state = "returned"
    /\ Len(chunks) = 2
    /\ Len(chunks[1]) = 1
    /\ Len(chunks[2]) = 1
    /\ chunks[1] # chunks[2]

\* C7 as stated: as above, but swapping any two different slices changes the
\* covered content.
C7_Original ==
    /\ gen.st = "live" => gen.payload = Concat(chunks)
    /\ out.state = "returned" =>
        HashRecordOf(out.bytes) = <<1, 0, 32, 0>> \o digest(Concat(chunks), 32)
    /\ (/\ gen.st = "live"
        /\ Len(chunks) = 2
        /\ chunks[1] # chunks[2])
        => Feed(new_hash_only, <<chunks[2], chunks[1]>>).payload # gen.payload

\* C8: an instance is constructed, then takes add_bytes and getter calls, then
\* one make_tlv: no bytes exist before make_tlv, the instance is gone after
\* it, and no operation applies once make_tlv has been called.
C8_OneShotLifecycle ==
    /\ [](out.state = "pending" => (out.bytes = <<>> /\ gen.st \in {"none", "live"}))
    /\ [](out.state # "pending" => gen.st = "moved")
    /\ [][/\ out.state = "pending"
          /\ (chunks' # chunks \/ lastGet' # lastGet \/ out' # out) => gen.st = "live"]_vars

C8_Witness ==
    /\ out.state # "pending"
    /\ gen.st = "moved"
    /\ Len(chunks) >= 1
    /\ lastGet.fn # "none"

\* C9: add_bytes leaves flags, kinds and size alone and only appends its slice
\* to the buffer; the getters return the constructor's values (2 and 36, or
\* 66 and 296) after any number of add_bytes; nothing is hashed or signed
\* while the instance is live.
C9_AddBytesFrame ==
    /\ [](lastGet.fn = "get_size" =>
            (lastGet.val = declared.size
             /\ lastGet.val = (IF ctor = "new_hash_only" THEN 36 ELSE 296)))
    /\ [](lastGet.fn = "get_flags" =>
            (lastGet.val = declared.flags
             /\ lastGet.val = (IF ctor = "new_hash_only" THEN 2 ELSE 66)))
    /\ [](gen.st = "live" => out = Pending)
    /\ [][chunks' # chunks =>
            /\ gen'.st = gen.st
            /\ gen'.flags = gen.flags
            /\ gen'.kinds = gen.kinds
            /\ gen'.size = gen.size
            /\ gen'.payload = gen.payload \o chunks'[Len(chunks')]
            /\ out' = out]_vars

C9_Witness ==
    /\ gen.st = "live"
    /\ ctor = "new_rsa_pss"
    /\ lastGet.fn = "get_size"
    /\ lastGet.n = MaxChunks
    /\ Len(gen.payload) > MaxChunkLen

\* C10: a digest whose length is not 32, or a signature buffer whose length is
\* not 256, makes make_tlv panic and return nothing; what it returns has the
\* promised total length and no record shorter or longer than declared.
C10_LengthMismatchIsFatal ==
    /\ (out.trace.digestLen \notin {{}, {32}} \/ out.trace.sigLen \notin {{}, {256}}) =>
        (out.state = "panicked" /\ out.bytes = <<>>)
    /\ out.state = "returned" =>
        /\ Len(out.bytes) = declared.size
        /\ WellFormed(ParseTlv(out.bytes))

C10_Witness ==
    /\ out.trace.digestLen = {31}
    /\ out.state = "panicked"
    /\ out.panicAt = "assert_hash_len"
    /\ out.bytes = <<>>

=============================================================================
